---------------------------- MODULE Spec2Model ----------------------------
(***************************************************************************)
(* Model of the three scripts of xarray-visualization:                     *)
(*   scripts/task1_2d.py      2D SFD/BMD of the central girder             *)
(*   scripts/task2_3d.py      3D SFD/BMD of all girders                    *)
(*   scripts/xarray_usage.py  dataset verification                         *)
(*                                                                         *)
(* A behaviour is one run of one script: the module-level open of the      *)
(* dataset, then the calls its main block makes, one loop iteration per    *)
(* step.  Python floats are modelled as exact rationals <<num, den>> in    *)
(* lowest terms (binary rounding is not modelled).  The dataset is only    *)
(* ever read: a cell's value is drawn when the call reads it first and is  *)
(* kept in sampled for the rest of that call, so that a second read of     *)
(* the same cell returns the same value.  The two calls of a main block    *)
(* read disjoint components (Vy and Mz), so sampled is emptied when a      *)
(* call returns.                                                           *)
(*                                                                         *)
(* The girders are the source's, cut to their first elements: the model's  *)
(* central girder has 2 elements (the source's 9) and the 3D model has 2   *)
(* girders of 2 and 1 elements (the source's 5 of 9).                      *)
(***************************************************************************)
EXTENDS Integers, Sequences, FiniteSets, TLC

\* Bound of the model: dataset values are the integers -1..MaxVal.
MaxVal == 2

\* ---------------------------------------------------------------- floats

Abs(n) == IF n < 0 THEN -n ELSE n

RECURSIVE GCD(_, _)
GCD(a, b) == IF b = 0 THEN a ELSE GCD(b, a % b)

\* The float n/d (d # 0), in lowest terms with a positive denominator.
Float(n, d) ==
    LET g == GCD(Abs(n), Abs(d))
        s == IF d < 0 THEN -1 ELSE 1
    IN  << (s * n) \div g, (s * d) \div g >>

Zero == << 0, 1 >>

RAdd(a, b) == Float(a[1] * b[2] + b[1] * a[2], a[2] * b[2])

RSub(a, b) == Float(a[1] * b[2] - b[1] * a[2], a[2] * b[2])

RMul(a, b) == Float(a[1] * b[1], a[2] * b[2])

\* a / b for b # 0; the callers raise ZeroDivisionError before dividing by 0.
RDiv(a, b) == Float(a[1] * b[2], a[2] * b[1])

RLess(a, b) == a[1] * b[2] < b[1] * a[2]

RAbs(a) == << Abs(a[1]), a[2] >>

\* f"{r:.{digits}f}": r rounded to digits decimals (ties to even), as the
\* integer count of units of 10^-digits.
Pow10(digits) == IF digits = 2 THEN 100 ELSE 1000

Format(r, digits) ==
    LET n == Abs(r[1]) * Pow10(digits)
        q == n \div r[2]
        rem2 == 2 * (n % r[2])
        up == rem2 > r[2] \/ (rem2 = r[2] /\ q % 2 = 1)
        m == IF up THEN q + 1 ELSE q
    IN  IF r[1] < 0 THEN -m ELSE m

\* max(), min() of a non-empty list of floats.
RECURSIVE SeqMax(_)
SeqMax(s) ==
    IF Len(s) = 1 THEN s[1]
    ELSE LET m == SeqMax(Tail(s)) IN IF RLess(s[1], m) THEN m ELSE s[1]

RECURSIVE SeqMin(_)
SeqMin(s) ==
    IF Len(s) = 1 THEN s[1]
    ELSE LET m == SeqMin(Tail(s)) IN IF RLess(m, s[1]) THEN m ELSE s[1]

\* The values a dataset cell may hold.
Values == { Float(v, 1) : v \in (-1)..MaxVal }

\* The values drawn in a run whose inputs miss something (such a run aborts
\* whatever the values are).
FaultValues == { Zero, Float(1, 1) }

\* ------------------------------------------------------------- constants

Scripts == { "task1_2d", "task2_3d", "xarray_usage" }

Components == { "Vy_i", "Vy_j", "Mz_i", "Mz_j" }

\* task1_2d.py: the central girder (first 2 of its 9 elements).
CENTRAL_GIRDER_IDS == << 15, 24 >>

\* task2_3d.py: the girders (Girder 1 cut to 2 elements, Girder 2 to 1).
GIRDERS ==
    << [name |-> "Girder 1", elements |-> << 13, 22 >>, nodes |-> << 1, 11, 16 >>],
       [name |-> "Girder 2", elements |-> << 14 >>, nodes |-> << 2, 12 >>] >>

hatch_density == 12

num_lines == 10

TARGET_HEIGHT == 5

Z_EXPANSION == Float(3, 2)

\* xarray_usage.py
required_components == << "Vy_i", "Vy_j", "Mz_i", "Mz_j" >>

central_girder_ids == << 15, 24 >>

\* data/element.py: element id -> (start node id, end node id).  Each girder is
\* a chain: element k of a girder joins its nodes k and k+1.
MemberTable ==
    (13 :> << 1, 11 >>) @@ (22 :> << 11, 16 >>) @@ (14 :> << 2, 12 >>)
    @@ (15 :> << 3, 13 >>) @@ (24 :> << 13, 18 >>)

\* data/node.py: node id -> (x, y, z).
NodeTable ==
    (1 :> << 0, 0, 0 >>) @@ (11 :> << 2, 0, 0 >>) @@ (16 :> << 5, 0, 0 >>)
    @@ (2 :> << 0, 0, 3 >>) @@ (12 :> << 2, 0, 3 >>)
    @@ (3 :> << 0, 0, 6 >>) @@ (13 :> << 2, 0, 6 >>) @@ (18 :> << 5, 0, 6 >>)

\* The calls of each main block, in order.
MainCalls(s) ==
    IF s = "task1_2d" THEN
        << [comp_i |-> "Vy_i", comp_j |-> "Vy_j", title |-> "SFD - Central Girder",
            unit |-> "kN", is_step |-> TRUE],
           [comp_i |-> "Mz_i", comp_j |-> "Mz_j", title |-> "BMD - Central Girder",
            unit |-> "kN-m", is_step |-> FALSE] >>
    ELSE IF s = "task2_3d" THEN
        << [comp_i |-> "Vy_i", comp_j |-> "Vy_j", title |-> "Shear Force (SFD)"],
           [comp_i |-> "Mz_i", comp_j |-> "Mz_j", title |-> "Bending Moment (BMD)"] >>
    ELSE << >>

\* The elements and nodes a script looks up.
RECURSIVE Flatten(_)
Flatten(ss) == IF ss = << >> THEN << >> ELSE Head(ss) \o Flatten(Tail(ss))

Range(s) == { s[k] : k \in DOMAIN s }

ScriptElements(s) ==
    IF s = "task2_3d" THEN Range(Flatten([g \in DOMAIN GIRDERS |-> GIRDERS[g].elements]))
    ELSE Range(CENTRAL_GIRDER_IDS)

ScriptNodes(s) ==
    IF s = "task2_3d" THEN Range(Flatten([g \in DOMAIN GIRDERS |-> GIRDERS[g].nodes]))
    ELSE IF s = "task1_2d"
         THEN UNION { Range(MemberTable[e]) : e \in Range(CENTRAL_GIRDER_IDS) }
         ELSE {}

\* ------------------------------------------------------------------ state

VARIABLES
    script,        \* the script being run
    open_result,   \* what xr.open_dataset does: "ok", "FileNotFoundError", "OSError"
    ds_Element,    \* the dataset's Element labels
    ds_Component,  \* the dataset's Component labels
    members,       \* data.element.members
    nodes,         \* data.node.nodes
    ds_values,     \* the values the dataset's cells are drawn from
    pc,            \* where the run is
    call,          \* index in MainCalls(script) of the current call
    i,             \* loop index (element of the girder, or girder)
    sampled,       \* cells read by the current call: <<eid, comp>> -> value
    x_full_path,   \* 2D
    y_full_path,   \* 2D
    all_forces,    \* 3D
    max_abs_val,   \* 3D
    HEIGHT_SCALE,  \* 3D
    C_MIN,         \* 3D
    C_MAX,         \* 3D
    fig,           \* the figure under construction, or the one returned
    shown,         \* titles of the figures displayed by fig.show(), in order
    df,            \* xarray_usage: the extracted table
    console,       \* lines printed
    error          \* the exception that ended the run, or "none"

vars == << script, open_result, ds_Element, ds_Component, members, nodes, ds_values, pc, call,
           i, sampled, x_full_path, y_full_path, all_forces, max_abs_val,
           HEIGHT_SCALE, C_MIN, C_MAX, fig, shown, df, console, error >>

inputs == << script, open_result, ds_Element, ds_Component, members, nodes, ds_values >>

locals3d == << all_forces, max_abs_val, HEIGHT_SCALE, C_MIN, C_MAX >>

locals2d == << x_full_path, y_full_path >>

NoFig == [shapes |-> << >>, annotations |-> << >>, traces |-> << >>, title |-> ""]

\* A local not assigned yet.
Unset == << 0, 0 >>

Without(f, k) == [x \in DOMAIN f \ {k} |-> f[x]]

\* The inputs of a run: the files are as the scripts expect, or one thing is
\* missing: the dataset file, an Element or Component label of the dataset, an
\* entry of members or of nodes.
Init ==
    /\ script \in Scripts
    /\ \/ /\ open_result \in { "ok", "FileNotFoundError", "OSError" }
          /\ ds_Element = ScriptElements(script)
          /\ ds_Component = Components
          /\ members = MemberTable
          /\ nodes = NodeTable
       \/ /\ open_result = "ok"
          /\ \E e \in ScriptElements(script) : ds_Element = ScriptElements(script) \ {e}
          /\ ds_Component = Components
          /\ members = MemberTable
          /\ nodes = NodeTable
       \/ /\ open_result = "ok"
          /\ ds_Element = ScriptElements(script)
          /\ \E c \in Components : ds_Component = Components \ {c}
          /\ members = MemberTable
          /\ nodes = NodeTable
       \/ /\ open_result = "ok"
          /\ script # "xarray_usage"
          /\ ds_Element = ScriptElements(script)
          /\ ds_Component = Components
          /\ \E e \in ScriptElements(script) : members = Without(MemberTable, e)
          /\ nodes = NodeTable
       \/ /\ open_result = "ok"
          /\ script # "xarray_usage"
          /\ ds_Element = ScriptElements(script)
          /\ ds_Component = Components
          /\ members = MemberTable
          /\ \E n \in ScriptNodes(script) : nodes = Without(NodeTable, n)
    /\ ds_values = IF /\ ds_Element = ScriptElements(script)
                      /\ ds_Component = Components
                      /\ members = MemberTable
                      /\ nodes = NodeTable
                   THEN Values ELSE FaultValues
    /\ pc = "load"
    /\ call = 0
    /\ i = 0
    /\ sampled = << >>
    /\ x_full_path = << >>
    /\ y_full_path = << >>
    /\ all_forces = << >>
    /\ max_abs_val = Unset
    /\ HEIGHT_SCALE = Unset
    /\ C_MIN = Unset
    /\ C_MAX = Unset
    /\ fig = NoFig
    /\ shown = << >>
    /\ df = << >>
    /\ console = << >>
    /\ error = "none"

\* An uncaught exception: the traceback is printed and the interpreter exits;
\* the frames and their locals are gone.
Raise(e) ==
    /\ pc' = "aborted"
    /\ error' = e
    /\ console' = Append(console, "Traceback: " \o e)
    /\ i' = 0
    /\ sampled' = << >>
    /\ x_full_path' = << >>
    /\ y_full_path' = << >>
    /\ all_forces' = << >>
    /\ max_abs_val' = Unset
    /\ HEIGHT_SCALE' = Unset
    /\ C_MIN' = Unset
    /\ C_MAX' = Unset
    /\ fig' = NoFig
    /\ UNCHANGED << inputs, call, shown, df >>

\* ------------------------------------------------------- module-level load

\* Mutant of Load: the failure is printed and the script goes on.
LoadIgnoringFailure ==
    /\ pc = "load"
    /\ pc' = "main"
    /\ console' = Append(console, IF open_result = "ok" THEN "loaded" ELSE "Error")
    /\ UNCHANGED << script, open_result, ds_Element, ds_Component, members, nodes,
                    ds_values, call, i, sampled, x_full_path, y_full_path, all_forces,
                    max_abs_val, HEIGHT_SCALE, C_MIN, C_MAX, fig, shown, df, error >>

\* try: ds = xr.open_dataset(DATA_PATH) / except FileNotFoundError: print; exit()
\* (task1_2d, xarray_usage); task2_3d opens the dataset with no handler.
Load ==
    /\ pc = "load"
    /\ IF open_result = "ok"
       THEN /\ pc' = "main"
            /\ console' = IF script = "xarray_usage"
                          THEN Append(console, "SUCCESS: Dataset loaded")
                          ELSE console
            /\ UNCHANGED << inputs, call, i, sampled, locals2d, locals3d, fig, shown,
                            df, error >>
       ELSE IF open_result = "FileNotFoundError" /\ script # "task2_3d"
       THEN /\ pc' = "exited"
            /\ console' = Append(console, IF script = "task1_2d"
                                          THEN "Error: Dataset not found."
                                          ELSE "ERROR: Could not find file")
            /\ UNCHANGED << inputs, call, i, sampled, locals2d, locals3d, fig, shown,
                            df, error >>
       ELSE Raise(open_result)

\* ------------------------------------------------------------ lookups

X(coord) == Float(coord[1], 1)

Z(coord) == Float(coord[3], 1)

\* sn, en = members[eid]; nodes[sn]; nodes[en]: each raises KeyError on an
\* absent key.
TopologyOk(eid) ==
    /\ eid \in DOMAIN members
    /\ members[eid][1] \in DOMAIN nodes
    /\ members[eid][2] \in DOMAIN nodes

\* Mutant of SelOk: a selection that never fails (an absent label reads as some
\* default value).
SelOkLenient(eid, comp) == TRUE

\* ds.forces.sel(Element=eid, Component=comp) raises KeyError when a label is
\* absent from the dataset's coordinates.
SelOk(eid, comp) == eid \in ds_Element /\ comp \in ds_Component

\* float(ds.forces.sel(Element=eid, Component=comp)): the values the read may
\* return (the dataset is read-only: a cell read before keeps its value).
Sel(eid, comp) ==
    IF << eid, comp >> \in DOMAIN sampled THEN { sampled[<< eid, comp >>] } ELSE ds_values

\* --------------------------------------- task1_2d: generate_midas_style_plot

\* Mutant of Segment2D: the values are negated (a manual sign flip).
Segment2DFlipped(is_step, x_i, x_j, val_i, val_j) ==
    [x_segment |-> << x_i, x_j >>,
     y_segment |-> IF is_step THEN << RSub(Zero, val_i), RSub(Zero, val_i) >>
                   ELSE << RSub(Zero, val_i), RSub(Zero, val_j) >>]

\* Mutant of Segment2D: the segment runs from the end node to the start node.
Segment2DReversed(is_step, x_i, x_j, val_i, val_j) ==
    [x_segment |-> << x_j, x_i >>,
     y_segment |-> IF is_step THEN << val_i, val_i >> ELSE << val_i, val_j >>]

\* 3. Define Segment Geometry
Segment2D(is_step, x_i, x_j, val_i, val_j) ==
    [x_segment |-> << x_i, x_j >>,
     y_segment |-> IF is_step THEN << val_i, val_i >> ELSE << val_i, val_j >>]

\* Mutant of Linspace: endpoint=False.
LinspaceNoEndpoint(a, b, num) ==
    [k \in 1..num |-> RAdd(a, RMul(Float(k - 1, 1), RDiv(RSub(b, a), Float(num, 1))))]

\* np.linspace(a, b, num)
Linspace(a, b, num) ==
    [k \in 1..num |->
        IF k = num THEN b
        ELSE RAdd(a, RMul(Float(k - 1, 1), RDiv(RSub(b, a), Float(num - 1, 1))))]

\* hy = val_start if is_step else
\*      val_start + (val_end - val_start) * (hx - x_i) / (x_j - x_i)
HatchY(is_step, x_i, x_j, val_start, val_end, hx) ==
    IF is_step THEN val_start
    ELSE RAdd(val_start,
              RDiv(RMul(RSub(val_end, val_start), RSub(hx, x_i)), RSub(x_j, x_i)))

\* 4. Generate Internal Hatching: the shapes added for one element.
Hatch2D(is_step, x_i, x_j, val_start, val_end) ==
    LET hatch_x == Linspace(x_i, x_j, hatch_density)
    IN  [k \in 1..hatch_density |->
            LET hx == hatch_x[k]
            IN  [x0 |-> hx, y0 |-> Zero, x1 |-> hx,
                 y1 |-> HatchY(is_step, x_i, x_j, val_start, val_end, hx)]]

\* Mutant of ZeroCrossing: the mode is not looked at.
ZeroCrossingAnyMode(is_step, x_i, x_j, val_i, val_j) ==
    IF RLess(RMul(val_i, val_j), Zero)
    THEN LET x_zero == RSub(x_i, RDiv(RMul(val_i, RSub(x_j, x_i)), RSub(val_j, val_i)))
         IN  << [label |-> "x=", x |-> x_zero, y |-> Zero, text |-> Format(x_zero, 2)] >>
    ELSE << >>

\* 5. Label Zero Crossings: the annotations added for one element.
ZeroCrossing(is_step, x_i, x_j, val_i, val_j) ==
    IF ~is_step /\ RLess(RMul(val_i, val_j), Zero)
    THEN LET x_zero == RSub(x_i, RDiv(RMul(val_i, RSub(x_j, x_i)), RSub(val_j, val_i)))
         IN  << [label |-> "x=", x |-> x_zero, y |-> Zero, text |-> Format(x_zero, 2)] >>
    ELSE << >>

\* np.argmax(y_arr): the first index of the largest value.
RECURSIVE ArgMaxFrom(_, _, _)
ArgMaxFrom(s, k, best) ==
    IF k > Len(s) THEN best
    ELSE ArgMaxFrom(s, k + 1, IF RLess(s[best], s[k]) THEN k ELSE best)

\* Mutant of ArgMax: the last index of the largest value.
RECURSIVE ArgMaxLastFrom(_, _, _)
ArgMaxLastFrom(s, k, best) ==
    IF k > Len(s) THEN best
    ELSE ArgMaxLastFrom(s, k + 1, IF RLess(s[k], s[best]) THEN best ELSE k)

ArgMaxLast(s) == ArgMaxLastFrom(s, 2, 1)

ArgMax(s) == ArgMaxFrom(s, 2, 1)

\* np.argmin(y_arr): the first index of the smallest value.
RECURSIVE ArgMinFrom(_, _, _)
ArgMinFrom(s, k, best) ==
    IF k > Len(s) THEN best
    ELSE ArgMinFrom(s, k + 1, IF RLess(s[k], s[best]) THEN k ELSE best)

ArgMin(s) == ArgMinFrom(s, 2, 1)

\* Annotate Global Max/Min
Extrema(xs, ys) ==
    LET max_idx == ArgMax(ys)
        min_idx == ArgMin(ys)
    IN  << [label |-> "MAX", x |-> xs[max_idx], y |-> ys[max_idx],
            text |-> Format(ys[max_idx], 3)],
           [label |-> "MIN", x |-> xs[min_idx], y |-> ys[min_idx],
            text |-> Format(ys[min_idx], 3)] >>

\* main: fig = generate_midas_style_plot(...): the call, up to its loop.
Call2D ==
    /\ pc = "main"
    /\ script = "task1_2d"
    /\ call < Len(MainCalls(script))
    /\ call' = call + 1
    /\ pc' = "loop2d"
    /\ i' = 1
    /\ fig' = NoFig
    /\ x_full_path' = << >>
    /\ y_full_path' = << >>
    /\ console' = IF call = 0 THEN Append(console, "Generating 2D Plots...") ELSE console
    /\ UNCHANGED << inputs, sampled, locals3d, shown, df, error >>

\* One iteration of  for eid in CENTRAL_GIRDER_IDS.
Step2D ==
    /\ pc = "loop2d"
    /\ i <= Len(CENTRAL_GIRDER_IDS)
    /\ LET req == MainCalls(script)[call]
           eid == CENTRAL_GIRDER_IDS[i]
       IN  IF ~TopologyOk(eid) \/ ~SelOk(eid, req.comp_i) \/ ~SelOk(eid, req.comp_j)
           THEN Raise("KeyError")
           ELSE \E val_i \in Sel(eid, req.comp_i), val_j \in Sel(eid, req.comp_j) :
                LET x_i == X(nodes[members[eid][1]])
                    x_j == X(nodes[members[eid][2]])
                    seg == Segment2D(req.is_step, x_i, x_j, val_i, val_j)
                    val_start == seg.y_segment[1]
                    val_end == seg.y_segment[2]
                IN  /\ x_full_path' = x_full_path \o seg.x_segment
                    /\ y_full_path' = y_full_path \o seg.y_segment
                    /\ fig' = [fig EXCEPT
                                 !.shapes = @ \o Hatch2D(req.is_step, x_i, x_j,
                                                         val_start, val_end),
                                 !.annotations = @ \o ZeroCrossing(req.is_step, x_i, x_j,
                                                                   val_i, val_j)]
                    /\ sampled' = (<< eid, req.comp_i >> :> val_i)
                                  @@ (<< eid, req.comp_j >> :> val_j) @@ sampled
                    /\ i' = i + 1
                    /\ UNCHANGED << inputs, pc, call, locals3d, shown, df, console,
                                    error >>

\* After the loop: the boundary trace, the MAX/MIN annotations, the layout,
\* return fig.
Finish2D ==
    /\ pc = "loop2d"
    /\ i > Len(CENTRAL_GIRDER_IDS)
    /\ LET req == MainCalls(script)[call]
       IN  fig' = [fig EXCEPT
                     !.traces = Append(@, [x |-> x_full_path, y |-> y_full_path,
                                           name |-> req.title]),
                     !.annotations = @ \o Extrema(x_full_path, y_full_path),
                     !.title = req.title]
    /\ pc' = "returned"
    /\ UNCHANGED << inputs, call, i, sampled, locals2d, locals3d, shown, df, console,
                    error >>

\* main: fig.show(), then the next call or the end of the script.  The figure
\* goes to the renderer, which is outside the model: shown keeps its title, and
\* the locals of the call that returned are gone.
Show ==
    /\ pc = "returned"
    /\ shown' = Append(shown, fig.title)
    /\ pc' = IF call = Len(MainCalls(script)) THEN "done" ELSE "main"
    /\ sampled' = << >>
    /\ fig' = NoFig
    /\ i' = 0
    /\ x_full_path' = << >>
    /\ y_full_path' = << >>
    /\ all_forces' = << >>
    /\ max_abs_val' = Unset
    /\ HEIGHT_SCALE' = Unset
    /\ C_MIN' = Unset
    /\ C_MAX' = Unset
    /\ UNCHANGED << inputs, call, df, console, error >>

\* ------------------------------------- task2_3d: create_midas_polished_plot

\* diagram_type = "SFD" if "Vy" in comp_i else "BMD"
DiagramType(comp_i) == IF comp_i \in { "Vy_i", "Vy_j" } THEN "SFD" ELSE "BMD"

\* The elements of all girders, in the order of  for g_data in GIRDERS.values():
\* for eid in g_data["elements"].
ScanOrder == Flatten([g \in DOMAIN GIRDERS |-> GIRDERS[g].elements])

\* Mutant of MaxAbs: the maximum over the first girder's samples only.
MaxAbsFirstGirder(forces) ==
    LET want == 2 * Len(GIRDERS[1].elements)
        n == IF Len(forces) < want THEN Len(forces) ELSE want
    IN  IF forces = << >> THEN Float(1, 1)
        ELSE SeqMax([k \in 1..n |-> RAbs(forces[k])])

\* abs_forces = [abs(f) for f in all_forces];
\* max_abs_val = max(abs_forces) if abs_forces else 1.0
MaxAbs(forces) ==
    IF forces = << >> THEN Float(1, 1)
    ELSE SeqMax([k \in DOMAIN forces |-> RAbs(forces[k])])

\* Mutant of Heights3D: the shear diagram is sloped like the moment diagram.
Heights3DLinear(diagram_type, val1, val2, scale) ==
    [h1 |-> RMul(val1, scale), h2 |-> RMul(val2, scale), c1 |-> val1, c2 |-> val2]

\* --- DIAGRAM LOGIC ---: the heights and colours of one element's ends.
Heights3D(diagram_type, val1, val2, scale) ==
    IF diagram_type = "SFD"
    THEN [h1 |-> RMul(val1, scale), h2 |-> RMul(val1, scale), c1 |-> val1, c2 |-> val1]
    ELSE [h1 |-> RMul(val1, scale), h2 |-> RMul(val2, scale), c1 |-> val1, c2 |-> val2]

\* Append Vertical Hatching Data: the num_lines + 1 fence lines of one element,
\* each from (cx, 0, cz) to (cx, ch, cz) with colour cc.
Fence3D(x1, z1, x2, z2, h1, h2, c1, c2) ==
    LET dx == RSub(x2, x1)
        dz == RSub(z2, z1)
        dh == RSub(h2, h1)
        dc == RSub(c2, c1)
    IN  [k \in 1..(num_lines + 1) |->
            LET frac == Float(k - 1, num_lines)
            IN  [cx |-> RAdd(x1, RMul(dx, frac)),
                 cz |-> RAdd(z1, RMul(dz, frac)),
                 ch |-> RAdd(h1, RMul(dh, frac)),
                 cc |-> RAdd(c1, RMul(dc, frac))]]

\* One iteration of  for eid in data["elements"]: the element's share of the
\* top profile (x1, x2 / h1, h2 / z1, z2 / c1, c2) and of the hatching.
Element3D(diagram_type, eid, scale) ==
    LET sn == members[eid][1]
        en == members[eid][2]
        x1 == X(nodes[sn])
        x2 == X(nodes[en])
        z1 == RMul(Z(nodes[sn]), Z_EXPANSION)
        z2 == RMul(Z(nodes[en]), Z_EXPANSION)
        val1 == sampled[<< eid, IF diagram_type = "SFD" THEN "Vy_i" ELSE "Mz_i" >>]
        val2 == sampled[<< eid, IF diagram_type = "SFD" THEN "Vy_j" ELSE "Mz_j" >>]
        hc == Heights3D(diagram_type, val1, val2, scale)
    IN  [outline |-> [x |-> << x1, x2 >>, y |-> << hc.h1, hc.h2 >>, z |-> << z1, z2 >>,
                  c |-> << hc.c1, hc.c2, hc.c2 >>],
     hatch |-> Fence3D(x1, z1, x2, z2, hc.h1, hc.h2, hc.c1, hc.c2)]

\* 1. Plot Zero-Force Baseline: bx, by, bz of one girder.
Baseline3D(g) ==
    [k \in DOMAIN GIRDERS[g].nodes |->
        LET n == GIRDERS[g].nodes[k]
        IN  << X(nodes[n]), Zero, RMul(Z(nodes[n]), Z_EXPANSION) >>]

\* Whether every lookup of one girder's iteration finds its key.
GirderTopologyOk(g) ==
    /\ \A k \in DOMAIN GIRDERS[g].nodes : GIRDERS[g].nodes[k] \in DOMAIN nodes
    /\ \A k \in DOMAIN GIRDERS[g].elements : TopologyOk(GIRDERS[g].elements[k])

\* main: fig = create_midas_polished_plot(...): the call, up to its first loop.
Call3D ==
    /\ pc = "main"
    /\ script = "task2_3d"
    /\ call < Len(MainCalls(script))
    /\ call' = call + 1
    /\ pc' = "scan3d"
    /\ i' = 1
    /\ fig' = NoFig
    /\ all_forces' = << >>
    /\ max_abs_val' = Unset
    /\ HEIGHT_SCALE' = Unset
    /\ C_MIN' = Unset
    /\ C_MAX' = Unset
    /\ console' = IF call = 0 THEN Append(console, "Generating 3D Plots...") ELSE console
    /\ UNCHANGED << inputs, sampled, locals2d, shown, df, error >>

\* A. GLOBAL SCALING CALCULATIONS: one iteration of the scan over all elements.
Scan3D ==
    /\ pc = "scan3d"
    /\ i <= Len(ScanOrder)
    /\ LET req == MainCalls(script)[call]
           eid == ScanOrder[i]
       IN  IF ~SelOk(eid, req.comp_i) \/ ~SelOk(eid, req.comp_j)
           THEN Raise("KeyError")
           ELSE \E v_i \in Sel(eid, req.comp_i), v_j \in Sel(eid, req.comp_j) :
                /\ all_forces' = all_forces \o << v_i, v_j >>
                /\ sampled' = (<< eid, req.comp_i >> :> v_i)
                              @@ (<< eid, req.comp_j >> :> v_j) @@ sampled
                /\ i' = i + 1
                /\ UNCHANGED << inputs, pc, call, locals2d, max_abs_val, HEIGHT_SCALE,
                                C_MIN, C_MAX, fig, shown, df, console, error >>

\* 1. Height Scaling, 2. Color Limits.  TARGET_HEIGHT / max_abs_val raises
\* ZeroDivisionError when max_abs_val is 0.0; min() of an empty list raises
\* ValueError.
Scale3D ==
    /\ pc = "scan3d"
    /\ i > Len(ScanOrder)
    /\ LET m == MaxAbs(all_forces)
       IN  IF m = Zero THEN Raise("ZeroDivisionError")
           ELSE IF all_forces = << >> THEN Raise("ValueError")
           ELSE /\ max_abs_val' = m
                /\ HEIGHT_SCALE' = RDiv(Float(TARGET_HEIGHT, 1), m)
                /\ C_MIN' = SeqMin(all_forces)
                /\ C_MAX' = SeqMax(all_forces)
                /\ console' = Append(console, "Generating " \o MainCalls(script)[call].title)
                /\ pc' = "plot3d"
                /\ i' = 1
                /\ UNCHANGED << inputs, call, sampled, locals2d, all_forces, fig, shown,
                                df, error >>

\* B. PLOTTING LOOP: one iteration of  for g_name, data in GIRDERS.items():
\* the baseline trace, the elements' profile and hatching, their two traces.
PlotGirder3D ==
    /\ pc = "plot3d"
    /\ i <= Len(GIRDERS)
    /\ LET req == MainCalls(script)[call]
       IN  IF ~GirderTopologyOk(i) THEN Raise("KeyError")
           ELSE /\ fig' = [fig EXCEPT !.traces = Append(@,
                             [name |-> GIRDERS[i].name,
                              baseline |-> Baseline3D(i),
                              elements |-> [k \in DOMAIN GIRDERS[i].elements |->
                                  Element3D(DiagramType(req.comp_i), GIRDERS[i].elements[k],
                                            HEIGHT_SCALE)],
                              cmin |-> C_MIN, cmax |-> C_MAX])]
                /\ i' = i + 1
                /\ UNCHANGED << inputs, pc, call, sampled, locals2d, locals3d, shown, df,
                                console, error >>

\* C. LAYOUT & CAMERA, return fig.
Finish3D ==
    /\ pc = "plot3d"
    /\ i > Len(GIRDERS)
    /\ fig' = [fig EXCEPT !.title = MainCalls(script)[call].title]
    /\ pc' = "returned"
    /\ UNCHANGED << inputs, call, i, sampled, locals2d, locals3d, shown, df, console,
                    error >>

\* --------------------------------------------------------- xarray_usage.py

\* 2. IDENTIFY COMPONENTS: each required component is reported found or missing;
\* the script goes on either way.
Verify ==
    /\ pc = "main"
    /\ script = "xarray_usage"
    /\ console' = console \o
                  [k \in DOMAIN required_components |->
                     IF required_components[k] \in ds_Component
                     THEN "Found Component: " \o required_components[k]
                     ELSE "MISSING Component: " \o required_components[k]]
    /\ pc' = "extract"
    /\ UNCHANGED << inputs, call, i, sampled, locals2d, locals3d, fig, shown, df, error >>

\* 3. EXTRACT VALUES FOR CENTRAL GIRDER: ds.forces.sel(Element=[...],
\* Component=[...]) raises KeyError when a label is absent; df is the table's
\* index and columns (its cells are not modelled).
Extract ==
    /\ pc = "extract"
    /\ IF \/ \E k \in DOMAIN central_girder_ids : central_girder_ids[k] \notin ds_Element
          \/ \E k \in DOMAIN required_components : required_components[k] \notin ds_Component
       THEN Raise("KeyError")
       ELSE /\ df' = << central_girder_ids, required_components >>
            /\ console' = Append(console, "VERIFICATION COMPLETE")
            /\ pc' = "done"
            /\ UNCHANGED << inputs, call, i, sampled, locals2d, locals3d, fig, shown,
                            error >>

\* ------------------------------------------------------------------- runs

Next ==
    \/ Load
    \/ Call2D
    \/ Step2D
    \/ Finish2D
    \/ Call3D
    \/ Scan3D
    \/ Scale3D
    \/ PlotGirder3D
    \/ Finish3D
    \/ Show
    \/ Verify
    \/ Extract

Spec == Init /\ [][Next]_vars

\* ----------------------------------------------------------------- claims

Req == MainCalls(script)[call]

InCall == pc \in { "loop2d", "scan3d", "plot3d" }

\* What call c of the script needs and the inputs lack.
MissingLabel(c) ==
    \/ \E e \in ScriptElements(script) : e \notin ds_Element
    \/ MainCalls(script)[c].comp_i \notin ds_Component
    \/ MainCalls(script)[c].comp_j \notin ds_Component

MissingTopology ==
    \/ \E e \in ScriptElements(script) : e \notin DOMAIN members
    \/ \E n \in ScriptNodes(script) : n \notin DOMAIN nodes

MissingData(c) == MissingLabel(c) \/ MissingTopology

\* Element e has everything the loops look up for it in call c.
ElementPresent(e, c) ==
    /\ e \in ds_Element
    /\ MainCalls(script)[c].comp_i \in ds_Component
    /\ MainCalls(script)[c].comp_j \in ds_Component

ElementWired(e) ==
    /\ e \in DOMAIN members
    /\ \A n \in Range(members[e]) : n \in DOMAIN nodes

\* C1: in both plot functions, when the dataset lacks a requested element id or
\* component name, or members/nodes lack a key, the call aborts with an error
\* and returns no figure: no loop goes past an element whose data is missing
\* (it is neither skipped nor given a default), no figure is returned or shown
\* for that call, and the run ends by the exception.
C1_MissingDataAborts ==
    script \in { "task1_2d", "task2_3d" } /\ call >= 1 =>
        /\ pc = "loop2d" =>
              \A k \in 1..(i - 1) :
                  /\ ElementPresent(CENTRAL_GIRDER_IDS[k], call)
                  /\ ElementWired(CENTRAL_GIRDER_IDS[k])
        /\ pc = "scan3d" => \A k \in 1..(i - 1) : ElementPresent(ScanOrder[k], call)
        /\ pc = "plot3d" =>
              \A g \in 1..(i - 1) :
                  /\ \A k \in DOMAIN GIRDERS[g].nodes : GIRDERS[g].nodes[k] \in DOMAIN nodes
                  /\ \A k \in DOMAIN GIRDERS[g].elements :
                        ElementWired(GIRDERS[g].elements[k])
        /\ pc = "returned" => ~MissingData(call)
        /\ \A c \in 1..Len(shown) : ~MissingData(c)
        /\ MissingData(call) =>
              \/ InCall
              \/ /\ pc = "aborted"
                 /\ error \in { "KeyError", "ZeroDivisionError" }
                 /\ Len(shown) = call - 1
                 /\ fig = NoFig

\* The second call aborted on a missing label after the first figure was shown.
C1_Witness ==
    /\ pc = "aborted"
    /\ error = "KeyError"
    /\ call = 2
    /\ MissingData(2)
    /\ Len(shown) = 1

\* C9: in every script, when the dataset cannot be opened the failure is
\* reported (one line on the console) and the run ends at once: no call is
\* made, nothing is shown or extracted, and the load is not tried again.
C9_OpenFailureAborts ==
    open_result # "ok" =>
        /\ pc \in { "load", "exited", "aborted" }
        /\ call = 0
        /\ shown = << >>
        /\ df = << >>
        /\ fig = NoFig
        /\ sampled = << >>
        /\ pc = "load" => console = << >>
        /\ pc # "load" => Len(console) = 1
        /\ pc = "aborted" => error = open_result
        /\ pc = "exited" => open_result = "FileNotFoundError" /\ script # "task2_3d"

C9_Witness ==
    /\ open_result = "FileNotFoundError"
    /\ script = "task2_3d"
    /\ pc = "aborted"
    /\ Len(console) = 1

\* The largest absolute value among the cells read by the current call.
SampledMaxAbs ==
    CHOOSE m \in { RAbs(sampled[c]) : c \in DOMAIN sampled } :
        \A c \in DOMAIN sampled : ~RLess(m, RAbs(sampled[c]))

Target == Float(TARGET_HEIGHT, 1)

Plotted3D == script = "task2_3d" /\ pc \in { "plot3d", "returned" }

\* The hatch lines are compared on the figure the call returns.
Returned3D == script = "task2_3d" /\ pc = "returned"

\* h = v * TARGET_HEIGHT / top, without dividing.
ScaledBy(h, v, top) == RMul(h, top) = RMul(v, Target)

\* C10: the height scale is always well defined: once every sample of the call
\* is read (all present, all zero included) the divisor max_abs_val is
\* strictly positive, the division does not fail, and every plotted height
\* is at most TARGET_HEIGHT in absolute value.
C10_ScaleWellDefined ==
    /\ error # "ZeroDivisionError"
    /\ script = "task2_3d" /\ pc = "scan3d" /\ i > Len(ScanOrder) =>
          RLess(Zero, MaxAbs(all_forces))
    /\ Plotted3D =>
          \A g \in DOMAIN fig.traces : \A k \in DOMAIN fig.traces[g].elements :
              \A e \in 1..2 :
                  ~RLess(Target, RAbs(fig.traces[g].elements[k].outline.y[e]))

\* C2: one height scale per call, TARGET_HEIGHT over the largest absolute
\* value of all start and end samples of all elements of all girders, applied
\* to every element of every girder; maxima {3.0, 7.0, 1.5} give 5.0/7.0.
C2_OneGlobalScale ==
    /\ Plotted3D =>
          LET top == SampledMaxAbs
          IN  /\ DOMAIN sampled = { << e, c >> : e \in Range(ScanOrder),
                                                  c \in { Req.comp_i, Req.comp_j } }
              /\ RMul(HEIGHT_SCALE, top) = Target
              /\ max_abs_val = top
              /\ \A g \in DOMAIN fig.traces : \A k \in DOMAIN fig.traces[g].elements :
                    LET el == fig.traces[g].elements[k]
                    IN  /\ ScaledBy(el.outline.y[1], el.outline.c[1], top)
                        /\ ScaledBy(el.outline.y[2], el.outline.c[2], top)
                        /\ Returned3D =>
                              \A m \in DOMAIN el.hatch :
                                  ScaledBy(el.hatch[m].ch, el.hatch[m].cc, top)
    /\ RDiv(Target, MaxAbs(<< Float(3, 1), Float(7, 1), Float(3, 2) >>)) = << 5, 7 >>

\* Both girders are plotted and the largest sample is not in the first one.
C2_Witness ==
    /\ Plotted3D
    /\ Len(fig.traces) = 2
    /\ HEIGHT_SCALE = << 5, 2 >>
    /\ \A k \in DOMAIN GIRDERS[1].elements : \A c \in { Req.comp_i, Req.comp_j } :
          RLess(RAbs(sampled[<< GIRDERS[1].elements[k], c >>]), Float(2, 1))
    /\ fig.traces[1].elements[1].outline.y[1] = << 5, 2 >>

Built2D == script = "task1_2d" /\ pc \in { "loop2d", "returned" }

\* Segments built so far by the 2D loop.
NSeg == Len(x_full_path) \div 2

\* The raw samples of element k of the central girder in the current call.
RawStart(k) == sampled[<< CENTRAL_GIRDER_IDS[k], Req.comp_i >>]

RawEnd(k) == sampled[<< CENTRAL_GIRDER_IDS[k], Req.comp_j >>]

\* The raw samples of element k of girder g in the current call.
Raw3DStart(g, k) == sampled[<< GIRDERS[g].elements[k], Req.comp_i >>]

Raw3DEnd(g, k) == sampled[<< GIRDERS[g].elements[k], Req.comp_j >>]

Shear3D == Req.comp_i = "Vy_i"

Sign(r) == IF r[1] > 0 THEN 1 ELSE IF r[1] < 0 THEN -1 ELSE 0

\* C3: no sign adjustment: the 2D profile values are the raw samples, every 3D
\* height is the raw sample times one positive factor (same sign), every 3D
\* colour value and the colour limits are raw samples, and the Z expansion
\* changes the depth coordinate only.
C3_RawSignPassThrough ==
    /\ Built2D =>
          \A k \in 1..NSeg :
              /\ y_full_path[2 * k - 1] = RawStart(k)
              /\ y_full_path[2 * k] = IF Req.is_step THEN RawStart(k) ELSE RawEnd(k)
    /\ Plotted3D =>
          /\ RLess(Zero, HEIGHT_SCALE)
          /\ \A c \in DOMAIN sampled : ~RLess(sampled[c], C_MIN) /\ ~RLess(C_MAX, sampled[c])
          /\ \E c \in DOMAIN sampled : sampled[c] = C_MIN
          /\ \E c \in DOMAIN sampled : sampled[c] = C_MAX
          /\ \A g \in DOMAIN fig.traces : \A k \in DOMAIN fig.traces[g].elements :
                LET o == fig.traces[g].elements[k].outline
                    v1 == Raw3DStart(g, k)
                    v2 == IF Shear3D THEN v1 ELSE Raw3DEnd(g, k)
                    m == members[GIRDERS[g].elements[k]]
                IN  /\ o.c = << v1, v2, v2 >>
                    /\ o.y = << RMul(v1, HEIGHT_SCALE), RMul(v2, HEIGHT_SCALE) >>
                    /\ Sign(o.y[1]) = Sign(v1)
                    /\ Sign(o.y[2]) = Sign(v2)
                    /\ o.x = << X(nodes[m[1]]), X(nodes[m[2]]) >>
                    /\ o.z = << RMul(Z(nodes[m[1]]), Float(3, 2)),
                                RMul(Z(nodes[m[2]]), Float(3, 2)) >>
                    /\ fig.traces[g].cmin = C_MIN
                    /\ fig.traces[g].cmax = C_MAX

\* A negative sample is drawn in 2D and a negative height in 3D.
C3_Witness ==
    \/ /\ Built2D
       /\ pc = "returned"
       /\ \E k \in 1..NSeg : y_full_path[2 * k] = Float(-1, 1)
    \/ /\ Plotted3D
       /\ pc = "returned"
       /\ fig.traces[2].elements[1].outline.y[1] = Float(-5, 2)
       /\ fig.traces[2].elements[1].outline.z[1] = Float(9, 2)

\* C4: the 2D profile holds one segment per element, in the girder's order,
\* and each segment starts where the one before it ends.
C4_SegmentsContinuous ==
    Built2D =>
        /\ Len(x_full_path) = Len(y_full_path)
        /\ NSeg = IF pc = "returned" THEN Len(CENTRAL_GIRDER_IDS) ELSE i - 1
        /\ \A k \in 1..NSeg :
              LET m == members[CENTRAL_GIRDER_IDS[k]]
              IN  /\ x_full_path[2 * k - 1] = X(nodes[m[1]])
                  /\ x_full_path[2 * k] = X(nodes[m[2]])
                  /\ y_full_path[2 * k - 1] = RawStart(k)
        /\ \A k \in 1..(NSeg - 1) : x_full_path[2 * k + 1] = x_full_path[2 * k]

C4_Witness ==
    /\ Built2D
    /\ pc = "returned"
    /\ NSeg = 2
    /\ x_full_path = << Zero, Float(2, 1), Float(2, 1), Float(5, 1) >>

OppositeSigns(a, b) == (a[1] < 0 /\ b[1] > 0) \/ (a[1] > 0 /\ b[1] < 0)

\* The crossing the claim expects of segment k: none, or one at
\* x_start - value_start * (x_end - x_start) / (value_end - value_start).
RECURSIVE ExpectedCrossings(_)
ExpectedCrossings(n) ==
    IF n = 0 THEN << >>
    ELSE LET xs == x_full_path[2 * n - 1]
             xe == x_full_path[2 * n]
             vs == RawStart(n)
             ve == RawEnd(n)
         IN  ExpectedCrossings(n - 1) \o
             (IF ~Req.is_step /\ OppositeSigns(vs, ve)
              THEN << RSub(xs, RDiv(RMul(vs, RSub(xe, xs)), RSub(ve, vs))) >>
              ELSE << >>)

IsCrossing(a) == a.label = "x="

ReportedCrossings ==
    LET zs == SelectSeq(fig.annotations, IsCrossing)
    IN  [k \in DOMAIN zs |-> zs[k].x]

\* C5: a zero crossing is reported for an element exactly when the mode is
\* linear and its two values have strictly opposite signs, at the linearly
\* interpolated position (10, -5 over [0, 4] gives 8/3, printed 2.67); none
\* when the values share a sign or one is zero, so the formula never divides
\* by value_end - value_start = 0.
C5_ZeroCrossings ==
    /\ Built2D =>
          /\ ReportedCrossings = ExpectedCrossings(NSeg)
          /\ \A k \in 1..NSeg :
                (RawStart(k) = RawEnd(k) \/ RawStart(k) = Zero \/ RawEnd(k) = Zero
                 \/ Sign(RawStart(k)) = Sign(RawEnd(k)) \/ Req.is_step)
                => ExpectedCrossings(k) = ExpectedCrossings(k - 1)
    /\ ZeroCrossing(FALSE, Zero, Float(4, 1), Float(10, 1), Float(-5, 1))
          = << [label |-> "x=", x |-> << 8, 3 >>, y |-> Zero, text |-> 267] >>
    /\ ZeroCrossing(FALSE, Zero, Float(4, 1), Zero, Zero) = << >>
    /\ ZeroCrossing(TRUE, Zero, Float(4, 1), Float(10, 1), Float(-5, 1)) = << >>

\* The moment diagram crosses zero in the second element only, at 2 + 2 = 4.
C5_Witness ==
    /\ Built2D
    /\ pc = "returned"
    /\ ~Req.is_step
    /\ RawStart(1) = Zero
    /\ RawStart(2) = Float(2, 1)
    /\ RawEnd(2) = Float(-1, 1)
    /\ ReportedCrossings = << Float(4, 1) >>

\* The hatch lines of segment k of the 2D figure.
Shapes2D(k) == SubSeq(fig.shapes, (k - 1) * hatch_density + 1, k * hatch_density)

\* C6: in stepped mode every segment is flat at the start-node sample, whatever
\* the end-node sample is, and so is every hatch sample of the element (2D:
\* is_step; 3D: the shear diagram, height and colour).
C6_SteppedConstant ==
    /\ Built2D /\ Req.is_step =>
          \A k \in 1..NSeg :
              /\ y_full_path[2 * k - 1] = RawStart(k)
              /\ y_full_path[2 * k] = RawStart(k)
              /\ \A m \in 1..hatch_density : Shapes2D(k)[m].y1 = RawStart(k)
              /\ \A v \in Values :
                    Segment2D(TRUE, x_full_path[2 * k - 1], x_full_path[2 * k],
                              RawStart(k), v).y_segment
                    = << y_full_path[2 * k - 1], y_full_path[2 * k] >>
    /\ Plotted3D /\ Shear3D =>
          \A g \in DOMAIN fig.traces : \A k \in DOMAIN fig.traces[g].elements :
              LET el == fig.traces[g].elements[k]
                  v1 == Raw3DStart(g, k)
                  h == RMul(v1, HEIGHT_SCALE)
              IN  /\ el.outline.c = << v1, v1, v1 >>
                  /\ el.outline.y = << h, h >>
                  /\ Returned3D =>
                        \A m \in DOMAIN el.hatch : el.hatch[m].cc = v1 /\ el.hatch[m].ch = h

\* A shear element whose end samples differ, in 2D and in 3D.
C6_Witness ==
    \/ /\ Built2D
       /\ Req.is_step
       /\ pc = "returned"
       /\ RawStart(1) # RawEnd(1)
    \/ /\ Plotted3D
       /\ Shear3D
       /\ pc = "returned"
       /\ Raw3DStart(1, 2) = Float(1, 1)
       /\ Raw3DEnd(1, 2) = Float(2, 1)

\* value_start + f * (value_end - value_start)
Lerp(a, b, f) == RAdd(a, RMul(f, RSub(b, a)))

\* C7: in linear mode the hatch sample at fraction f of the element is
\* value_start + f * (value_end - value_start); the first sample (f = 0) is the
\* raw start-node sample and the last (f = 1) the raw end-node sample.
C7_LinearInterpolation ==
    /\ Built2D /\ ~Req.is_step =>
          /\ Len(fig.shapes) = hatch_density * NSeg
          /\ \A k \in 1..NSeg :
                LET sh == Shapes2D(k)
                IN  /\ \A m \in 1..hatch_density :
                          LET f == Float(m - 1, hatch_density - 1)
                          IN  /\ sh[m].y1 = Lerp(RawStart(k), RawEnd(k), f)
                              /\ sh[m].x0 = Lerp(x_full_path[2 * k - 1],
                                                 x_full_path[2 * k], f)
                              /\ sh[m].x1 = sh[m].x0
                              /\ sh[m].y0 = Zero
                    /\ sh[1].y1 = RawStart(k)
                    /\ sh[hatch_density].y1 = RawEnd(k)
    /\ Returned3D /\ ~Shear3D =>
          \A g \in DOMAIN fig.traces : \A k \in DOMAIN fig.traces[g].elements :
              LET el == fig.traces[g].elements[k]
                  v1 == Raw3DStart(g, k)
                  v2 == Raw3DEnd(g, k)
              IN  /\ Len(el.hatch) = num_lines + 1
                  /\ \A m \in DOMAIN el.hatch :
                        LET f == Float(m - 1, num_lines)
                            v == Lerp(v1, v2, f)
                        IN  /\ el.hatch[m].cc = v
                            /\ el.hatch[m].ch = RMul(v, HEIGHT_SCALE)
                            /\ el.hatch[m].cx = Lerp(el.outline.x[1], el.outline.x[2], f)
                  /\ el.hatch[1].cc = v1
                  /\ el.hatch[num_lines + 1].cc = v2

\* A moment element whose end samples differ, in 2D and in 3D.
C7_Witness ==
    \/ /\ Built2D
       /\ ~Req.is_step
       /\ pc = "returned"
       /\ RawStart(2) = Float(-1, 1)
       /\ RawEnd(2) = Float(2, 1)
       /\ Shapes2D(2)[2].y1 = Float(-8, 11)
    \/ /\ Plotted3D
       /\ ~Shear3D
       /\ pc = "returned"
       /\ Raw3DStart(1, 1) = Float(-1, 1)
       /\ Raw3DEnd(1, 1) = Float(2, 1)

IsExtremum(a) == a.label \in { "MAX", "MIN" }

\* C8: once the profile is complete exactly one maximum and one minimum are
\* reported: the largest and the smallest value of the profile, each at the
\* position of its first occurrence in traversal order.
C8_GlobalExtrema ==
    script = "task1_2d" /\ pc = "returned" =>
        LET ex == SelectSeq(fig.annotations, IsExtremum)
            FirstAt(v) == CHOOSE k \in DOMAIN y_full_path :
                              /\ y_full_path[k] = v
                              /\ \A j \in 1..(k - 1) : y_full_path[j] # v
        IN  /\ Len(ex) = 2
            /\ ex[1].label = "MAX"
            /\ ex[2].label = "MIN"
            /\ \A k \in DOMAIN y_full_path :
                  ~RLess(ex[1].y, y_full_path[k]) /\ ~RLess(y_full_path[k], ex[2].y)
            /\ \E k \in DOMAIN y_full_path : y_full_path[k] = ex[1].y
            /\ \E k \in DOMAIN y_full_path : y_full_path[k] = ex[2].y
            /\ ex[1].x = x_full_path[FirstAt(ex[1].y)]
            /\ ex[2].x = x_full_path[FirstAt(ex[2].y)]

\* Every value of the profile is the same: the maximum and the minimum are both
\* reported at the first point of the girder.
C8_Witness ==
    /\ script = "task1_2d"
    /\ pc = "returned"
    /\ y_full_path = << Float(2, 1), Float(2, 1), Float(2, 1), Float(2, 1) >>
    /\ fig.annotations[Len(fig.annotations) - 1].x = Zero
    /\ fig.annotations[Len(fig.annotations)].x = Zero

=============================================================================
